---- MODULE Spec2Model ----
(***************************************************************************)
(* A model of the client-side i18n loader src/i18n.js: language            *)
(* resolution, dictionary loading over candidate base paths, the           *)
(* translation pass over the DOM, and the asynchronous setLang calls that  *)
(* interleave at their fetch awaits.                                       *)
(*                                                                         *)
(* Strings are sequences of one-character strings, so that split(), trim() *)
(* and string indexing are computed, not assumed.  JSON / JavaScript       *)
(* values are records of one shape [t, s, m, n]: t is the type tag, s the  *)
(* characters of a string, m the own properties of an object, n a number.  *)
(*                                                                         *)
(* Modelling assumptions (all about the page, not about the script):       *)
(*  - bound elements are not nested in one another, and dictionary HTML    *)
(*    does not itself carry binding markers;                               *)
(*  - attribute names written in data-i18n-attr are valid attribute names  *)
(*    (setAttribute does not throw) and are not marker attributes;         *)
(*  - a dictionary file that loads is a JSON object.                       *)
(***************************************************************************)
EXTENDS Integers, Sequences, FiniteSets, TLC

VARIABLES
    document,      \* [title, lang, meta, elems]: the part of the DOM the script touches
    localStorage,  \* [throws, items]: the persisted preference store
    lastDict,      \* __lastDict
    lastFallback,  \* __lastFallback
    windowI18n,    \* TRUE once window.i18n.refresh / window.i18n.setLang are assigned
    ready,         \* TRUE once init() has run (listeners registered)
    calls,         \* the setLang activations, in invocation order
    server,        \* language code -> the JSON served for <base><code>.json
    applied,       \* history: the last applyTranslations call
    event          \* history: the last click or keydown event dispatched

vars == <<document, localStorage, lastDict, lastFallback, windowI18n, ready,
          calls, server, applied, event>>

(***************************************************************************)
(* Bounds of the model.                                                    *)
(***************************************************************************)
\* setLang invocations explored in one behaviour (init's call included)
MaxCalls == 2

(***************************************************************************)
(* Strings.                                                                *)
(***************************************************************************)
HU == <<"h", "u">>
IT == <<"i", "t">>
EN == <<"e", "n">>

STORAGE_KEY == <<"l", "a", "n", "g">>
DEFAULT_LANG == HU
SUPPORTED == {HU, IT}

DOT_JSON == <<".", "j", "s", "o", "n">>

\* String.prototype.trim strips these from both ends
Whitespace == {" ", "\t", "\n"}

RECURSIVE TrimStart(_)
TrimStart(s) ==
    IF s # <<>> /\ Head(s) \in Whitespace THEN TrimStart(Tail(s)) ELSE s

RECURSIVE TrimEnd(_)
TrimEnd(s) ==
    IF s # <<>> /\ s[Len(s)] \in Whitespace
    THEN TrimEnd(SubSeq(s, 1, Len(s) - 1))
    ELSE s

Trim(s) == TrimEnd(TrimStart(s))

\* String.prototype.split(sep) for a one-character separator:
\* "a.b" -> ["a","b"], "a." -> ["a",""], "" -> [""]
RECURSIVE Split(_, _)
Split(s, sep) ==
    IF \E i \in 1..Len(s) : s[i] = sep
    THEN LET i == CHOOSE j \in 1..Len(s) :
                      s[j] = sep /\ \A k \in 1..(j - 1) : s[k] # sep
         IN  <<SubSeq(s, 1, i - 1)>> \o Split(SubSeq(s, i + 1, Len(s)), sep)
    ELSE <<s>>

(***************************************************************************)
(* JavaScript values.                                                      *)
(***************************************************************************)
NoProps == <<>>

JUndefined == [t |-> "undefined", s |-> <<>>, m |-> NoProps, n |-> 0]
JNull      == [t |-> "null", s |-> <<>>, m |-> NoProps, n |-> 0]
JStr(s)    == [t |-> "string", s |-> s, m |-> NoProps, n |-> 0]
JNum(n)    == [t |-> "number", s |-> <<>>, m |-> NoProps, n |-> n]
JObj(m)    == [t |-> "object", s |-> <<>>, m |-> m, n |-> 0]

EmptyObj == JObj(NoProps)

\* ToBoolean
Truthy(v) ==
    CASE v.t = "object" -> TRUE
      [] v.t = "string" -> v.s # <<>>
      [] v.t = "number" -> v.n # 0
      [] OTHER -> FALSE

\* a || {}
OrEmpty(v) == IF Truthy(v) THEN v ELSE EmptyObj

DigitVal ==
    ("0" :> 0) @@ ("1" :> 1) @@ ("2" :> 2) @@ ("3" :> 3) @@ ("4" :> 4) @@
    ("5" :> 5) @@ ("6" :> 6) @@ ("7" :> 7) @@ ("8" :> 8) @@ ("9" :> 9)

LENGTH == <<"l", "e", "n", "g", "t", "h">>

\* part names a character of a string of length len (strings here are
\* shorter than ten characters, so an index is one digit)
IsIndex(part, len) ==
    /\ Len(part) = 1
    /\ part[1] \in DOMAIN DigitVal
    /\ DigitVal[part[1]] < len

\* Object.prototype.hasOwnProperty.call(acc, part) for a truthy acc: an
\* object has its own keys, a string primitive is boxed and has its
\* character indices and "length", a number has no own property
HasOwn(acc, part) ==
    CASE acc.t = "object" -> part \in DOMAIN acc.m
      [] acc.t = "string" -> part = LENGTH \/ IsIndex(part, Len(acc.s))
      [] OTHER -> FALSE

\* acc[part] for an own property
GetOwn(acc, part) ==
    CASE acc.t = "object" -> acc.m[part]
      [] acc.t = "string" ->
            IF part = LENGTH THEN JNum(Len(acc.s))
            ELSE JStr(<<acc.s[DigitVal[part[1]] + 1]>>)
      [] OTHER -> JUndefined

\* the reducer of getByPath
PathStep(acc, part) ==
    IF Truthy(acc) /\ HasOwn(acc, part) THEN GetOwn(acc, part) ELSE JUndefined

RECURSIVE Reduce(_, _)
Reduce(acc, parts) ==
    IF parts = <<>> THEN acc
    ELSE Reduce(PathStep(acc, Head(parts)), Tail(parts))

\* getByPath(obj, path): path is a string
getByPath(obj, path) ==
    IF ~Truthy(obj) \/ path = <<>> THEN JUndefined
    ELSE Reduce(obj, Split(path, "."))

\* typeof v === 'string' && v.trim().length > 0
Usable(v) == v.t = "string" /\ Len(Trim(v.s)) > 0

\* resolve(key) inside applyTranslations(dict, fallbackDict)
resolveFallbackFirst(dict, fallbackDict, key) ==
    IF key = <<>> THEN JUndefined
    ELSE IF Truthy(fallbackDict) /\ Usable(getByPath(fallbackDict, key))
         THEN getByPath(fallbackDict, key)
         ELSE IF Usable(getByPath(dict, key)) THEN getByPath(dict, key)
              ELSE JUndefined

resolve(dict, fallbackDict, key) ==
    IF key = <<>> THEN JUndefined
    ELSE IF Usable(getByPath(dict, key)) THEN getByPath(dict, key)
         ELSE IF Truthy(fallbackDict) /\ Usable(getByPath(fallbackDict, key))
              THEN getByPath(fallbackDict, key)
              ELSE JUndefined

(***************************************************************************)
(* The DOM.  A string slot of the page is [s, w]: its characters, and      *)
(* whether the script wrote it (history).  An element is [attrs, content]; *)
(* content also records whether it was assigned as markup (innerHTML) or   *)
(* as text (textContent).                                                  *)
(***************************************************************************)
DATA_I18N      == <<"d", "a", "t", "a", "-", "i", "1", "8", "n">>
DATA_I18N_HTML == DATA_I18N \o <<"-", "h", "t", "m", "l">>
DATA_I18N_ATTR == DATA_I18N \o <<"-", "a", "t", "t", "r">>
DATA_SET_LANG  == <<"d", "a", "t", "a", "-", "s", "e", "t", "-", "l", "a", "n", "g">>
ARIA_PRESSED   == <<"a", "r", "i", "a", "-", "p", "r", "e", "s", "s", "e", "d">>
STR_TRUE       == <<"t", "r", "u", "e">>
STR_FALSE      == <<"f", "a", "l", "s", "e">>

META        == <<"m", "e", "t", "a">>
TITLE       == <<"t", "i", "t", "l", "e">>
DESCRIPTION == <<"d", "e", "s", "c", "r", "i", "p", "t", "i", "o", "n">>
META_TITLE       == META \o <<".">> \o TITLE
META_DESCRIPTION == META \o <<".">> \o DESCRIPTION

FromPage(s) == [s |-> s, w |-> FALSE]
Written(s)  == [s |-> s, w |-> TRUE]

hasAttribute(el, name) == name \in DOMAIN el.attrs
getAttribute(el, name) == el.attrs[name].s

setAttribute(el, name, value) ==
    [el EXCEPT !.attrs = [a \in (DOMAIN el.attrs) \cup {name} |->
                              IF a = name THEN Written(value) ELSE el.attrs[a]]]

\* lines 57-60
SetTitle(doc, dict, fallbackDict) ==
    LET metaTitle == resolve(dict, fallbackDict, META_TITLE)
    IN  IF metaTitle.t = "string"
        THEN [doc EXCEPT !.title = Written(metaTitle.s)]
        ELSE doc

\* lines 62-66
SetDescription(doc, dict, fallbackDict) ==
    LET metaDesc == resolve(dict, fallbackDict, META_DESCRIPTION)
    IN  IF metaDesc.t = "string" /\ doc.meta.present
        THEN [doc EXCEPT !.meta.content = Written(metaDesc.s)]
        ELSE doc

\* lines 68-72 with an unresolved key blanking the element
TextPassBlanking(doc, dict, fallbackDict) ==
    [doc EXCEPT !.elems = [i \in DOMAIN doc.elems |->
        LET el == doc.elems[i]
        IN  IF hasAttribute(el, DATA_I18N)
            THEN LET value == resolve(dict, fallbackDict, getAttribute(el, DATA_I18N))
                 IN  [el EXCEPT !.content =
                         [s |-> IF value.t = "string" THEN value.s ELSE <<>>,
                          w |-> TRUE, html |-> FALSE]]
            ELSE el]]

\* lines 68-72
TextPass(doc, dict, fallbackDict) ==
    [doc EXCEPT !.elems = [i \in DOMAIN doc.elems |->
        LET el == doc.elems[i]
        IN  IF hasAttribute(el, DATA_I18N)
            THEN LET value == resolve(dict, fallbackDict, getAttribute(el, DATA_I18N))
                 IN  IF value.t = "string"
                     THEN [el EXCEPT !.content =
                              [s |-> value.s, w |-> TRUE, html |-> FALSE]]
                     ELSE el
            ELSE el]]

\* lines 74-78 with the markup appended to the element's content (innerHTML +=)
HtmlPassAppending(doc, dict, fallbackDict) ==
    [doc EXCEPT !.elems = [i \in DOMAIN doc.elems |->
        LET el == doc.elems[i]
        IN  IF hasAttribute(el, DATA_I18N_HTML)
            THEN LET value == resolve(dict, fallbackDict,
                                      getAttribute(el, DATA_I18N_HTML))
                 IN  IF value.t = "string"
                     THEN [el EXCEPT !.content =
                              [s |-> el.content.s \o value.s, w |-> TRUE,
                               html |-> TRUE]]
                     ELSE el
            ELSE el]]

\* lines 74-78
HtmlPass(doc, dict, fallbackDict) ==
    [doc EXCEPT !.elems = [i \in DOMAIN doc.elems |->
        LET el == doc.elems[i]
        IN  IF hasAttribute(el, DATA_I18N_HTML)
            THEN LET value == resolve(dict, fallbackDict,
                                      getAttribute(el, DATA_I18N_HTML))
                 IN  IF value.t = "string"
                     THEN [el EXCEPT !.content =
                              [s |-> value.s, w |-> TRUE, html |-> TRUE]]
                     ELSE el
            ELSE el]]

\* spec.split(';').map((s) => s.trim()).filter(Boolean)
NonEmpty(s) == s # <<>>
PairsOf(spec) ==
    LET raw == Split(spec, ";")
    IN  SelectSeq([i \in DOMAIN raw |-> Trim(raw[i])], NonEmpty)

\* parts[0] && parts[0].trim(); <<>> stands for every falsy outcome
PairAttr(pair) ==
    LET parts == Split(pair, ":")
    IN  IF parts[1] = <<>> THEN <<>> ELSE Trim(parts[1])

\* parts[1] && parts[1].trim(); parts[1] is undefined when there is no colon
PairKey(pair) ==
    LET parts == Split(pair, ":")
    IN  IF Len(parts) < 2 \/ parts[2] = <<>> THEN <<>> ELSE Trim(parts[2])

\* lines 86-93, one pair
ApplyPair(el, pair, dict, fallbackDict) ==
    LET attr == PairAttr(pair)
        key  == PairKey(pair)
    IN  IF attr = <<>> \/ key = <<>> THEN el
        ELSE LET value == resolve(dict, fallbackDict, key)
             IN  IF value.t = "string" THEN setAttribute(el, attr, value.s)
                 ELSE el

\* lines 86-93 with a malformed pair ending the element's list
RECURSIVE ApplyPairsUntilMalformed(_, _, _, _)
ApplyPairsUntilMalformed(el, pairs, dict, fallbackDict) ==
    IF pairs = <<>> THEN el
    ELSE IF PairAttr(Head(pairs)) = <<>> \/ PairKey(Head(pairs)) = <<>> THEN el
         ELSE ApplyPairsUntilMalformed(ApplyPair(el, Head(pairs), dict, fallbackDict),
                                       Tail(pairs), dict, fallbackDict)

RECURSIVE ApplyPairs(_, _, _, _)
ApplyPairs(el, pairs, dict, fallbackDict) ==
    IF pairs = <<>> THEN el
    ELSE ApplyPairs(ApplyPair(el, Head(pairs), dict, fallbackDict),
                    Tail(pairs), dict, fallbackDict)

\* lines 80-94
AttrPass(doc, dict, fallbackDict) ==
    [doc EXCEPT !.elems = [i \in DOMAIN doc.elems |->
        LET el == doc.elems[i]
        IN  IF hasAttribute(el, DATA_I18N_ATTR)
            THEN ApplyPairs(el, PairsOf(getAttribute(el, DATA_I18N_ATTR)),
                            dict, fallbackDict)
            ELSE el]]

\* applyTranslations without the pass over [data-i18n-html]
applyTranslationsNoHtml(doc, dict, fallbackDict) ==
    AttrPass(
      TextPass(
        SetDescription(
          SetTitle(doc, dict, fallbackDict),
          dict, fallbackDict),
        dict, fallbackDict),
      dict, fallbackDict)

\* applyTranslations with the [data-i18n-html] pass before the [data-i18n] pass
applyTranslationsHtmlFirst(doc, dict, fallbackDict) ==
    AttrPass(
      TextPass(
        HtmlPass(
          SetDescription(
            SetTitle(doc, dict, fallbackDict),
            dict, fallbackDict),
          dict, fallbackDict),
        dict, fallbackDict),
      dict, fallbackDict)

\* applyTranslations(dict, fallbackDict): the DOM after the call
applyTranslations(doc, dict, fallbackDict) ==
    AttrPass(
      HtmlPass(
        TextPass(
          SetDescription(
            SetTitle(doc, dict, fallbackDict),
            dict, fallbackDict),
          dict, fallbackDict),
        dict, fallbackDict),
      dict, fallbackDict)

\* updateLangUi(lang) pressing the matching controls without releasing the others
updateLangUiNoRelease(doc, lang) ==
    IF lang = <<>> THEN doc
    ELSE [doc EXCEPT
            !.lang = lang,
            !.elems = [i \in DOMAIN doc.elems |->
                LET btn == doc.elems[i]
                IN  IF /\ hasAttribute(btn, DATA_SET_LANG)
                       /\ getAttribute(btn, DATA_SET_LANG) = lang
                    THEN setAttribute(btn, ARIA_PRESSED, STR_TRUE)
                    ELSE btn]]

\* updateLangUi(lang); lang is never falsy where setLang calls it
updateLangUi(doc, lang) ==
    IF lang = <<>> THEN doc
    ELSE [doc EXCEPT
            !.lang = lang,
            !.elems = [i \in DOMAIN doc.elems |->
                LET btn == doc.elems[i]
                IN  IF hasAttribute(btn, DATA_SET_LANG)
                    THEN setAttribute(btn, ARIA_PRESSED,
                             IF getAttribute(btn, DATA_SET_LANG) = lang
                             THEN STR_TRUE ELSE STR_FALSE)
                    ELSE btn]]

(***************************************************************************)
(* Storage.                                                                *)
(***************************************************************************)
\* localStorage.getItem(STORAGE_KEY) when it does not throw
getItem(store) ==
    IF STORAGE_KEY \in DOMAIN store.items
    THEN JStr(store.items[STORAGE_KEY])
    ELSE JNull

\* getInitialLang() with the document's language attribute consulted first
getInitialLangDocFirst(store, doc) ==
    LET saved == IF store.throws THEN JNull ELSE getItem(store)
    IN  IF doc.lang # <<>> /\ doc.lang \in SUPPORTED THEN doc.lang
        ELSE IF Truthy(saved) /\ saved.s \in SUPPORTED THEN saved.s
             ELSE DEFAULT_LANG

\* getInitialLang()
getInitialLang(store, doc) ==
    LET saved == IF store.throws THEN JNull ELSE getItem(store)
    IN  IF Truthy(saved) /\ saved.s \in SUPPORTED THEN saved.s
        ELSE IF doc.lang # <<>> /\ doc.lang \in SUPPORTED THEN doc.lang
             ELSE DEFAULT_LANG

\* line 112 left out: the code as passed is used
NormalizeKeep(lang) == lang

\* line 112
Normalize(lang) == IF lang \in SUPPORTED THEN lang ELSE DEFAULT_LANG

\* lines 113-117 without the try/catch: a throwing store ends the call
PersistLangNoCatch(store, lang) ==
    IF store.throws
    THEN [store |-> store, threw |-> TRUE]
    ELSE [store |-> [store EXCEPT !.items = (STORAGE_KEY :> lang)],
          threw |-> FALSE]

\* lines 113-117: try { localStorage.setItem(STORAGE_KEY, lang) } catch (e) {}
\* [store, threw]: the store afterwards, and whether an exception leaves the block
PersistLang(store, lang) ==
    IF store.throws
    THEN [store |-> store, threw |-> FALSE]
    ELSE [store |-> [store EXCEPT !.items = (STORAGE_KEY :> lang)],
          threw |-> FALSE]

(***************************************************************************)
(* The environment: the dictionaries served and the page's markup.         *)
(***************************************************************************)
K_A == <<"a">>
K_B == <<"b">>
K_C == <<"c">>
K_I == <<"i">>
K_Z == <<"z">>

\* i18n/hu.json
HuJson ==
    JObj((META :> JObj((TITLE :> JStr(<<"H">>)) @@ (DESCRIPTION :> JStr(<<"D">>))))
         @@ (K_A :> JStr(<<"A">>))
         @@ (K_B :> JStr(<<"B">>))
         @@ (K_C :> JStr(<<"C">>)))

\* i18n/it.json: no description, a blank "a", and a key "i" that hu.json lacks
ItJson ==
    JObj((META :> JObj((TITLE :> JStr(<<"I">>))))
         @@ (K_A :> JStr(<<" ">>))
         @@ (K_B :> JStr(<<"b">>))
         @@ (K_I :> JStr(<<"i">>)))

Servers == {(HU :> HuJson) @@ (IT :> ItJson)}

Element(attrs, text) ==
    [attrs |-> attrs, content |-> [s |-> text, w |-> FALSE, html |-> TRUE]]

Button(code) == Element((DATA_SET_LANG :> FromPage(code)), code)

\* "title:c; x; :a"  (one well-formed pair, two malformed ones)
AttrSpec == TITLE \o <<":">> \o K_C \o <<";", " ", "x", ";", " ", ":">> \o K_A

PageElems ==
    << Button(HU), Button(IT),
       Element((DATA_I18N :> FromPage(K_A)), <<"o">>),
       Element((DATA_I18N_HTML :> FromPage(K_B)), <<"o">>),
       Element((DATA_I18N :> FromPage(K_I)), <<"o">>),
       Element((DATA_I18N_ATTR :> FromPage(AttrSpec)), <<"o">>) >>

Page(lang) ==
    [title |-> FromPage(<<"T">>),
     lang  |-> lang,
     meta  |-> [present |-> TRUE, content |-> FromPage(<<"M">>)],
     elems |-> PageElems]

\* what a page script may inject after load
ID == <<"i", "d">>
Injected ==
    { Element((ID :> FromPage(<<"n">>)) @@ (DATA_I18N :> FromPage(K_A)), <<"n">>) }

(***************************************************************************)
(* setLang activations.  A call is the activation record of one setLang    *)
(* invocation: its locals (lang, b, dict, fallbackDict, fallbackLoaded),   *)
(* where it is suspended (pc, url), and history (requested: the argument   *)
(* as passed; fetched: the URLs it has requested, kept while the           *)
(* activation lives; loaded / exhausted: the loops in which a fetch        *)
(* succeeded / every candidate failed; applied: the pairs it passed to     *)
(* applyTranslations).                                                     *)
(***************************************************************************)
\* getI18nBasePath(): the try block returns './i18n/'
getI18nBasePath == <<".", "/", "i", "1", "8", "n", "/">>

\* line 121 with the site-relative candidate tried first
basesRootFirst ==
    << <<".", "/">>, <<".", "/", "i", "1", "8", "n", "/">>,
       <<"/", "i", "1", "8", "n", "/">> >>

\* line 121
bases == <<getI18nBasePath, <<".", "/">>, <<"/", "i", "1", "8", "n", "/">>>>

\* line 126 with the default language's file requested whatever the language
UrlOfDefault(b, lang) == b \o DEFAULT_LANG \o DOT_JSON

\* `${b}${lang}.json`
Url(b, lang) == b \o lang \o DOT_JSON

\* the server has a file for the URL (a fetch of any other URL fails)
Exists(url) ==
    \E l \in DOMAIN server : \E k \in DOMAIN bases : url = Url(bases[k], l)

\* the file a URL names on the server
Served(url) ==
    server[CHOOSE l \in DOMAIN server :
               \E k \in DOMAIN bases : url = Url(bases[k], l)]

\* fetchJson(url) is called and awaited: url is the request in flight
Issue(call, url) == [call EXCEPT !.url = url, !.fetched = Append(@, url)]

\* the awaited fetch settles, in the loop the call is in
Settled(call, ok) ==
    IF ok THEN [call EXCEPT !.loaded = @ \cup {call.pc}]
    ELSE IF call.b = Len(bases) THEN [call EXCEPT !.exhausted = @ \cup {call.pc}]
         ELSE call

\* the function returns: its loop variable and its requests are gone
Return(call) == [call EXCEPT !.pc = "done", !.b = 0, !.url = <<>>, !.fetched = <<>>]

\* history of applyTranslations calls: by, sw: the last setLang call that
\* applied and the pair it applied; dict, fallback, n: the pair applied last (by
\* a switch or by refresh) and the number of elements the page then held;
\* again: the last call applied the pair of the call before it, to the same
\* elements
NoApply ==
    [by |-> 0, sw |-> <<JNull, JNull>>, dict |-> JNull, fallback |-> JNull, n |-> 0,
     again |-> FALSE]

Repeats(dict, fallbackDict) ==
    /\ applied.dict = dict
    /\ applied.fallback = fallbackDict
    /\ applied.n = Len(document.elems)

ApplyBySwitch(i, dict, fallbackDict) ==
    [by |-> i, sw |-> <<dict, fallbackDict>>, dict |-> dict,
     fallback |-> fallbackDict, n |-> Len(document.elems),
     again |-> Repeats(dict, fallbackDict)]

ApplyByRefresh(dict, fallbackDict) ==
    [applied EXCEPT !.dict = dict, !.fallback = fallbackDict,
                    !.n = Len(document.elems),
                    !.again = Repeats(dict, fallbackDict)]

\* lines 110-128: the synchronous head of setLang, up to its first await
setLang(requested) ==
    /\ Len(calls) < MaxCalls
    /\ LET lang == Normalize(requested)
           p    == PersistLang(localStorage, lang)
           call == [requested |-> requested, lang |-> lang, pc |-> "primary",
                    b |-> 1, url |-> <<>>, fetched |-> <<>>, dict |-> JNull,
                    fallbackDict |-> JNull, fallbackLoaded |-> FALSE,
                    loaded |-> {}, exhausted |-> {}, applied |-> <<>>]
       IN  IF p.threw
           THEN /\ calls' = Append(calls, [call EXCEPT !.pc = "rejected", !.b = 0])
                /\ UNCHANGED <<localStorage, document>>
           ELSE /\ localStorage' = p.store
                /\ document' = updateLangUi(document, lang)
                /\ calls' = Append(calls, Issue(call, Url(bases[1], lang)))

\* lines 175-186 with a guard on the call being the latest issued
FinishIfLatest(i, call) ==
    LET dict == OrEmpty(call.dict)
        fb   == OrEmpty(call.fallbackDict)
    IN  IF i = Len(calls)
        THEN /\ document' = applyTranslations(document, dict, fb)
             /\ lastDict' = dict
             /\ lastFallback' = fb
             /\ windowI18n' = TRUE
             /\ applied' = ApplyBySwitch(i, dict, fb)
             /\ calls' = [calls EXCEPT ![i] =
                            [Return(call) EXCEPT !.applied = Append(@, <<dict, fb>>)]]
        ELSE /\ calls' = [calls EXCEPT ![i] = Return(call)]
             /\ UNCHANGED <<document, lastDict, lastFallback, windowI18n, applied>>

\* lines 175-186: apply, record, expose the API, resolve
Finish(i, call) ==
    LET dict == OrEmpty(call.dict)
        fb   == OrEmpty(call.fallbackDict)
    IN  /\ document' = applyTranslations(document, dict, fb)
        /\ lastDict' = dict
        /\ lastFallback' = fb
        /\ windowI18n' = TRUE
        /\ applied' = ApplyBySwitch(i, dict, fb)
        /\ calls' = [calls EXCEPT ![i] =
                        [Return(call) EXCEPT !.applied = Append(@, <<dict, fb>>)]]

\* lines 146-150 with the default dictionary passed as fallback as well
ApplyDefaultWithFallback(i, call, baseDict) ==
    /\ document' = applyTranslations(document, OrEmpty(baseDict), OrEmpty(baseDict))
    /\ applied' = ApplyBySwitch(i, OrEmpty(baseDict), OrEmpty(baseDict))
    /\ calls' = [calls EXCEPT ![i] =
           [Return(call) EXCEPT
               !.fallbackLoaded = TRUE,
               !.applied = Append(@, <<OrEmpty(baseDict), OrEmpty(baseDict)>>)]]

\* lines 146-150, then 157: the default dictionary is applied as primary
ApplyDefault(i, call, baseDict) ==
    /\ document' = applyTranslations(document, OrEmpty(baseDict), EmptyObj)
    /\ applied' = ApplyBySwitch(i, OrEmpty(baseDict), EmptyObj)
    /\ calls' = [calls EXCEPT ![i] =
           [Return(call) EXCEPT
               !.fallbackLoaded = TRUE,
               !.applied = Append(@, <<OrEmpty(baseDict), EmptyObj>>)]]

\* lines 139-157 with the page blanked to an empty dictionary on total failure
GiveUpAndReset(i, call) ==
    /\ calls' = [calls EXCEPT ![i] = Return(call)]
    /\ lastDict' = EmptyObj
    /\ lastFallback' = EmptyObj
    /\ UNCHANGED <<document, windowI18n, applied>>

\* lines 139-157 when nothing loaded: log and return
GiveUp(i, call) ==
    /\ calls' = [calls EXCEPT ![i] = Return(call)]
    /\ UNCHANGED <<document, lastDict, lastFallback, windowI18n, applied>>

\* the loop goes on to its next candidate base
NextBase(i, call, lang) ==
    calls' = [calls EXCEPT ![i] =
                 Issue([call EXCEPT !.b = call.b + 1],
                       Url(bases[call.b + 1], lang))]

\* a loop over the bases for the default file starts
StartLoop(i, call, pc) ==
    calls' = [calls EXCEPT ![i] =
                 Issue([call EXCEPT !.pc = pc, !.b = 1],
                       Url(bases[1], DEFAULT_LANG))]

\* lines 125-136 and what follows the loop: the fetch of the requested
\* language's file at bases[b] settles
PrimarySettled(i, ok) ==
    /\ i \in DOMAIN calls
    /\ calls[i].pc = "primary"
    /\ ok => Exists(calls[i].url)
    /\ LET c == Settled(calls[i], ok)
       IN  IF ok
           THEN LET d == [c EXCEPT !.dict = Served(c.url)]
                IN  IF d.lang # DEFAULT_LANG
                    THEN /\ StartLoop(i, d, "fallback")
                         /\ UNCHANGED <<document, lastDict, lastFallback,
                                        windowI18n, applied>>
                    ELSE Finish(i, d)
           ELSE IF c.b < Len(bases)
                THEN /\ NextBase(i, c, c.lang)
                     /\ UNCHANGED <<document, lastDict, lastFallback,
                                    windowI18n, applied>>
                ELSE IF c.lang # DEFAULT_LANG
                     THEN /\ StartLoop(i, c, "default")
                          /\ UNCHANGED <<document, lastDict, lastFallback,
                                         windowI18n, applied>>
                     ELSE GiveUp(i, c)
    /\ UNCHANGED <<localStorage, ready, server, event>>

\* lines 143-157: the requested file did not load; the fetch of the default
\* file at bases[b] settles
DefaultSettled(i, ok) ==
    /\ i \in DOMAIN calls
    /\ calls[i].pc = "default"
    /\ ok => Exists(calls[i].url)
    /\ LET c == Settled(calls[i], ok)
       IN  IF ok
           THEN /\ ApplyDefault(i, c, Served(c.url))
                /\ UNCHANGED <<lastDict, lastFallback, windowI18n>>
           ELSE IF c.b < Len(bases)
                THEN /\ NextBase(i, c, DEFAULT_LANG)
                     /\ UNCHANGED <<document, lastDict, lastFallback,
                                    windowI18n, applied>>
                ELSE GiveUp(i, c)
    /\ UNCHANGED <<localStorage, ready, server, event>>

\* lines 160-177 with a failed fallback treated as a failed switch
FallbackSettledFatal(i, ok) ==
    /\ i \in DOMAIN calls
    /\ calls[i].pc = "fallback"
    /\ ok => Exists(calls[i].url)
    /\ LET c == Settled(calls[i], ok)
       IN  IF ok
           THEN Finish(i, [c EXCEPT !.fallbackDict = Served(c.url)])
           ELSE IF c.b < Len(bases)
                THEN /\ NextBase(i, c, DEFAULT_LANG)
                     /\ UNCHANGED <<document, lastDict, lastFallback,
                                    windowI18n, applied>>
                ELSE GiveUp(i, c)
    /\ UNCHANGED <<localStorage, ready, server, event>>

\* lines 160-173 and 175-186: the requested file loaded; the fetch of the
\* default file as fallback at bases[b] settles
FallbackSettled(i, ok) ==
    /\ i \in DOMAIN calls
    /\ calls[i].pc = "fallback"
    /\ ok => Exists(calls[i].url)
    /\ LET c == Settled(calls[i], ok)
       IN  IF ok
           THEN Finish(i, [c EXCEPT !.fallbackDict = Served(c.url)])
           ELSE IF c.b < Len(bases)
                THEN /\ NextBase(i, c, DEFAULT_LANG)
                     /\ UNCHANGED <<document, lastDict, lastFallback,
                                    windowI18n, applied>>
                ELSE Finish(i, c)
    /\ UNCHANGED <<localStorage, ready, server, event>>

\* lines 189-220 (and 222-226): init() registers the listeners and switches
\* to the initial language
init ==
    /\ ~ready
    /\ ready' = TRUE
    /\ setLang(getInitialLang(localStorage, document))
    /\ UNCHANGED <<lastDict, lastFallback, windowI18n, server, applied, event>>

\* An event is dispatched at a node given by its path: the node itself, then
\* its ancestors up to the root, each an index into document.elems, or 0 for
\* a node the script has no interest in (a text node, an element without
\* markers).  The record keeps what the handler did to the event; tick
\* tells one dispatch from the next.
NoEvent ==
    [type |-> "none", path |-> <<>>, key |-> "", defaultPrevented |-> FALSE,
     tick |-> FALSE]

Dispatched(type, path, key, prevented) ==
    [type |-> type, path |-> path, key |-> key, defaultPrevented |-> prevented,
     tick |-> ~event.tick]

\* the node is an element carrying the language-switch marker
IsSwitch(node) ==
    /\ node # 0
    /\ hasAttribute(document.elems[node], DATA_SET_LANG)

\* el.closest('[data-set-lang]') from the first element of the path: the
\* position in the path of the nearest marked ancestor-or-self, 0 for null
closest(path) ==
    IF \E k \in DOMAIN path : IsSwitch(path[k])
    THEN CHOOSE k \in DOMAIN path :
             IsSwitch(path[k]) /\ \A j \in 1..(k - 1) : ~IsSwitch(path[j])
    ELSE 0

\* lines 194-205 with the marker looked for on the click target alone
ClickOnTargetOnly(path) ==
    /\ ready
    /\ IF path = <<>> \/ ~IsSwitch(path[1])
       THEN /\ event' = Dispatched("click", path, "", FALSE)
            /\ UNCHANGED <<document, localStorage, calls>>
       ELSE LET next == getAttribute(document.elems[path[1]], DATA_SET_LANG)
            IN  /\ event' = Dispatched("click", path, "", TRUE)
                /\ IF next = <<>>
                   THEN UNCHANGED <<document, localStorage, calls>>
                   ELSE setLang(next)
    /\ UNCHANGED <<lastDict, lastFallback, windowI18n, ready, server, applied>>

\* lines 194-205: the delegated click listener, for a click on the node at
\* the head of path
Click(path) ==
    /\ ready
    /\ LET btn == closest(path)
       IN  IF btn = 0
           THEN /\ event' = Dispatched("click", path, "", FALSE)
                /\ UNCHANGED <<document, localStorage, calls>>
           ELSE LET next == getAttribute(document.elems[path[btn]], DATA_SET_LANG)
                IN  /\ event' = Dispatched("click", path, "", TRUE)
                    /\ IF next = <<>>
                       THEN UNCHANGED <<document, localStorage, calls>>
                       ELSE setLang(next)
    /\ UNCHANGED <<lastDict, lastFallback, windowI18n, ready, server, applied>>

KEY_ENTER == "Enter"
KEY_SPACE == " "

\* lines 208-217: the keydown listener; path is document.activeElement and
\* its ancestors, <<>> when nothing has the focus
Keydown(key, path) ==
    /\ ready
    /\ IF key # KEY_ENTER /\ key # KEY_SPACE
       THEN /\ event' = Dispatched("keydown", path, key, FALSE)
            /\ UNCHANGED <<document, localStorage, calls>>
       ELSE IF path = <<>> \/ ~IsSwitch(path[1])
            THEN /\ event' = Dispatched("keydown", path, key, FALSE)
                 /\ UNCHANGED <<document, localStorage, calls>>
            ELSE LET next == getAttribute(document.elems[path[1]], DATA_SET_LANG)
                 IN  /\ event' = Dispatched("keydown", path, key, TRUE)
                     /\ IF next = <<>>
                        THEN UNCHANGED <<document, localStorage, calls>>
                        ELSE setLang(next)
    /\ UNCHANGED <<lastDict, lastFallback, windowI18n, ready, server, applied>>

\* line 182: window.i18n.setLang(l), called by another page script
ApiSetLang(l) ==
    /\ windowI18n
    /\ setLang(l)
    /\ UNCHANGED <<lastDict, lastFallback, windowI18n, ready, server, applied, event>>

\* line 181: window.i18n.refresh()
Refresh ==
    /\ windowI18n
    /\ document' = applyTranslations(document, OrEmpty(lastDict), OrEmpty(lastFallback))
    /\ applied' = ApplyByRefresh(OrEmpty(lastDict), OrEmpty(lastFallback))
    /\ UNCHANGED <<localStorage, lastDict, lastFallback, windowI18n, ready,
                   calls, server, event>>

\* a page script appends an element carrying a binding marker (each of the
\* injectable elements once)
AddElement(el) ==
    /\ \A i \in DOMAIN document.elems : document.elems[i].attrs # el.attrs
    /\ document' = [document EXCEPT !.elems = Append(@, el)]
    /\ UNCHANGED <<localStorage, lastDict, lastFallback, windowI18n, ready,
                   calls, server, applied, event>>

\* clicks on the two switch controls of the page
SwitchPaths == {<<1>>, <<2>>}

\* the store is empty, or holds 'it', or throws on every access; under a
\* throwing store the page may declare 'it' (SpecLang below ranges over the
\* rest)
Init ==
    /\ localStorage \in {[throws |-> FALSE, items |-> <<>>],
                          [throws |-> FALSE, items |-> (STORAGE_KEY :> IT)],
                          [throws |-> TRUE, items |-> <<>>]}
    /\ document \in {Page(l) : l \in IF localStorage.throws THEN {<<>>, IT}
                                                           ELSE {<<>>}}
    /\ lastDict = JNull
    /\ lastFallback = JNull
    /\ windowI18n = FALSE
    /\ ready = FALSE
    /\ calls = <<>>
    /\ server \in Servers
    /\ applied = NoApply
    /\ event = NoEvent

Next ==
    \/ init
    \/ \E path \in SwitchPaths : Click(path)
    \/ \E l \in {IT, EN} : ApiSetLang(l)
    \/ \E i \in DOMAIN calls, ok \in BOOLEAN : PrimarySettled(i, ok)
    \/ \E i \in DOMAIN calls, ok \in BOOLEAN : DefaultSettled(i, ok)
    \/ \E i \in DOMAIN calls, ok \in BOOLEAN : FallbackSettled(i, ok)
    \/ Refresh
    \/ \E el \in Injected : AddElement(el)

Spec == Init /\ [][Next]_vars

\* a fetch settles and the call awaiting it runs on to its next await or its return
FetchSettles ==
    \E i \in DOMAIN calls, ok \in BOOLEAN :
        PrimarySettled(i, ok) \/ DefaultSettled(i, ok) \/ FallbackSettled(i, ok)

\* a fetch is pending: FetchSettles is enabled exactly then, since a call
\* that is not done awaits a fetch, which can at least fail
Busy == \E i \in DOMAIN calls : calls[i].pc # "done"

\* every pending fetch eventually settles: weak fairness of FetchSettles,
\* written out with Busy for its enabling condition
SpecFair ==
    /\ Spec
    /\ ([]<>(~Busy) \/ []<><<FetchSettles>>_vars)

(***************************************************************************)
(* applyTranslations over a range of dictionary pairs.  A switch to 'it'   *)
(* has loaded the requested file and awaits the default file as fallback;  *)
(* the two files are drawn from dictionaries whose value at "a" (and at    *)
(* meta.title, meta.description) ranges over the shapes JSON allows.  The  *)
(* call finishes and applies, content is injected, refresh re-applies.     *)
(***************************************************************************)
K_K  == <<"k">>
K_A0 == K_A \o <<".", "0">>
K_AK == K_A \o <<".">> \o K_K

\* the shapes of a value: a usable string, one usable only after trimming
\* would not change it, an empty and a blank string, a nested object, a number
Shapes(c) ==
    { JStr(<<c>>), JStr(<<" ", c>>), JStr(<<>>), JStr(<<" ">>),
      JObj((K_K :> JStr(<<c, c>>))), JNum(1) }

\* a dictionary whose "b" is the usable string bval
DictWith(v, bval) ==
    JObj((META :> JObj((TITLE :> v) @@ (DESCRIPTION :> v)))
         @@ (K_A :> v)
         @@ (K_B :> JStr(bval)))

DictWithout(bval) == JObj((K_B :> JStr(bval)))

PrimaryDicts  == {DictWith(v, <<"p">>) : v \in Shapes("x")} \cup {DictWithout(<<"p">>)}
FallbackDicts == {DictWith(v, <<"q">>) : v \in Shapes("y")} \cup {DictWithout(<<"q">>)}

LANG == <<"l", "a", "n", "g">>

\* "title:a; x; :a; lang:z"
ApplyAttrSpec ==
    TITLE \o <<":">> \o K_A \o <<";", " ", "x", ";", " ", ":">> \o K_A
          \o <<";", " ">> \o LANG \o <<":">> \o K_Z

ALT == <<"a", "l", "t">>

\* "x; :a; lang:; ; alt : b ;title:a": no colon, empty attribute, empty key,
\* a blank segment, then two well-formed pairs
ParseAttrSpec ==
    <<"x", ";", " ", ":">> \o K_A \o <<";", " ">> \o LANG \o <<":", ";", " ", ";", " ">>
        \o ALT \o <<" ", ":", " ">> \o K_B \o <<" ", ";">> \o TITLE \o <<":">> \o K_A

ApplyPage(metaPresent) ==
    [title |-> FromPage(<<"T">>),
     lang  |-> <<>>,
     meta  |-> [present |-> metaPresent, content |-> FromPage(<<"M">>)],
     elems |-> << Button(HU), Button(IT),
                  Element((DATA_I18N :> FromPage(K_A)), <<"o">>),
                  Element((DATA_I18N_HTML :> FromPage(K_B)), <<"o">>),
                  Element((DATA_I18N :> FromPage(K_Z)), <<"o">>),
                  Element((DATA_I18N :> FromPage(K_A0)), <<"o">>),
                  Element((DATA_I18N_HTML :> FromPage(K_AK)), <<"o">>),
                  Element((DATA_I18N :> FromPage(<<>>)), <<"o">>),
                  Element((DATA_I18N_ATTR :> FromPage(ApplyAttrSpec)), <<"o">>),
                  Element((DATA_I18N_ATTR :> FromPage(ParseAttrSpec)), <<"o">>),
                  Element((DATA_I18N :> FromPage(K_A))
                             @@ (DATA_I18N_HTML :> FromPage(K_B)), <<"o">>),
                  Element((DATA_I18N :> FromPage(K_B))
                             @@ (DATA_I18N_HTML :> FromPage(K_A)), <<"o">>) >>]

InitApply ==
    /\ server \in {(IT :> d) @@ (HU :> f) : d \in PrimaryDicts, f \in FallbackDicts}
    /\ document \in {updateLangUi(ApplyPage(m), IT) : m \in BOOLEAN}
    /\ localStorage = [throws |-> FALSE, items |-> (STORAGE_KEY :> IT)]
    /\ lastDict = JNull
    /\ lastFallback = JNull
    /\ windowI18n = FALSE
    /\ ready = TRUE
    /\ calls = << [requested |-> IT, lang |-> IT, pc |-> "fallback", b |-> 1,
                   url |-> Url(bases[1], DEFAULT_LANG),
                   fetched |-> <<Url(bases[1], IT), Url(bases[1], DEFAULT_LANG)>>,
                   dict |-> server[IT],
                   fallbackDict |-> JNull, fallbackLoaded |-> FALSE,
                   loaded |-> {"primary"}, exhausted |-> {}, applied |-> <<>>] >>
    /\ applied = NoApply
    /\ event = NoEvent

NextApply ==
    \/ \E ok \in BOOLEAN : FallbackSettled(1, ok)
    \/ Refresh
    \/ \E el \in Injected : AddElement(el)

SpecApply == InitApply /\ [][NextApply]_vars

(***************************************************************************)
(* The initial language over a range of stored preferences and declared    *)
(* page languages: nothing stored, an empty string, each supported code,   *)
(* an unsupported code; storage working or throwing.  init() runs and its  *)
(* switch loads.                                                           *)
(***************************************************************************)
StoredItems ==
    {<<>>} \cup {(STORAGE_KEY :> v) : v \in {<<>>, HU, IT, EN}}

InitLang ==
    /\ document \in {Page(l) : l \in {<<>>, HU, IT, EN}}
    /\ localStorage \in {[throws |-> t, items |-> it] :
                            t \in BOOLEAN, it \in StoredItems}
    /\ lastDict = JNull
    /\ lastFallback = JNull
    /\ windowI18n = FALSE
    /\ ready = FALSE
    /\ calls = <<>>
    /\ server \in Servers
    /\ applied = NoApply
    /\ event = NoEvent

NextLang ==
    \/ init
    \/ \E ok \in BOOLEAN : PrimarySettled(1, ok)
    \/ \E ok \in BOOLEAN : DefaultSettled(1, ok)
    \/ \E ok \in BOOLEAN : FallbackSettled(1, ok)

SpecLang == InitLang /\ [][NextLang]_vars

(***************************************************************************)
(* The listeners over a page with nested switch controls: control 1 ('hu') *)
(* holds element 3, whose marker is empty; control 2 ('it') stands alone;  *)
(* element 4 is a text binding.  Clicks and key presses arrive at these    *)
(* elements, at unmarked nodes inside them, and elsewhere.                 *)
(***************************************************************************)
UiPage ==
    [title |-> FromPage(<<"T">>),
     lang  |-> <<>>,
     meta  |-> [present |-> TRUE, content |-> FromPage(<<"M">>)],
     elems |-> << Button(HU), Button(IT), Button(<<>>),
                  Element((DATA_I18N :> FromPage(K_A)), <<"o">>) >>]

ClickPaths ==
    { <<>>, <<0>>, <<4>>, <<1>>, <<0, 1>>, <<2>>, <<0, 2>>, <<3, 1>>, <<0, 3, 1>> }

FocusPaths == { <<>>, <<0>>, <<1>>, <<2>>, <<0, 2>>, <<3, 1>> }

Keys == {KEY_ENTER, KEY_SPACE, "a"}

InitUi ==
    /\ document = UiPage
    /\ localStorage = [throws |-> FALSE, items |-> <<>>]
    /\ lastDict = JNull
    /\ lastFallback = JNull
    /\ windowI18n = FALSE
    /\ ready = FALSE
    /\ calls = <<>>
    /\ server \in Servers
    /\ applied = NoApply
    /\ event = NoEvent

\* the dictionary files load from the first base
NextUi ==
    \/ init
    \/ \E path \in ClickPaths : Click(path)
    \/ \E key \in Keys, path \in FocusPaths : Keydown(key, path)
    \/ \E i \in DOMAIN calls : PrimarySettled(i, TRUE)
    \/ \E i \in DOMAIN calls : FallbackSettled(i, TRUE)

SpecUi == InitUi /\ [][NextUi]_vars

(***************************************************************************)
(* Vocabulary of the properties.                                           *)
(***************************************************************************)
Done(i) == calls[i].pc = "done"
AllDone == \A i \in DOMAIN calls : Done(i)

HasText(el) == hasAttribute(el, DATA_I18N)
HasHtml(el) == hasAttribute(el, DATA_I18N_HTML)

\* the pairs of an element's attribute-binding marker that name an attribute and a key
BoundPairs(el) ==
    IF hasAttribute(el, DATA_I18N_ATTR)
    THEN LET ps == PairsOf(getAttribute(el, DATA_I18N_ATTR))
         IN  {<<PairAttr(ps[k]), PairKey(ps[k])>> :
                 k \in {j \in DOMAIN ps : PairAttr(ps[j]) # <<>> /\ PairKey(ps[j]) # <<>>}}
    ELSE {}

\* the translation targets of a page and what they hold
Targets(doc) ==
    [title |-> doc.title.s,
     description |-> doc.meta.content.s,
     elems |-> [i \in DOMAIN doc.elems |->
        LET el == doc.elems[i]
        IN  [content |-> IF HasText(el) \/ HasHtml(el)
                         THEN [bound |-> TRUE, s |-> el.content.s,
                               html |-> el.content.html]
                         ELSE [bound |-> FALSE, s |-> <<>>, html |-> FALSE],
             attrs |-> [p \in BoundPairs(el) |->
                          IF hasAttribute(el, p[1])
                          THEN [present |-> TRUE, s |-> getAttribute(el, p[1])]
                          ELSE [present |-> FALSE, s |-> <<>>]]]]]

\* every target among the first n elements whose key resolves in (dict, fb)
\* holds the value resolved from that pair
ShowsPair(doc, dict, fb, n) ==
    /\ resolve(dict, fb, META_TITLE).t = "string"
          => doc.title = Written(resolve(dict, fb, META_TITLE).s)
    /\ (resolve(dict, fb, META_DESCRIPTION).t = "string" /\ doc.meta.present)
          => doc.meta.content = Written(resolve(dict, fb, META_DESCRIPTION).s)
    /\ \A i \in 1..n :
          LET el == doc.elems[i]
          IN  /\ (HasText(el) /\ ~HasHtml(el)
                    /\ resolve(dict, fb, getAttribute(el, DATA_I18N)).t = "string")
                 => el.content =
                       [s |-> resolve(dict, fb, getAttribute(el, DATA_I18N)).s,
                        w |-> TRUE, html |-> FALSE]
              /\ (HasHtml(el)
                    /\ resolve(dict, fb, getAttribute(el, DATA_I18N_HTML)).t = "string")
                 => el.content =
                       [s |-> resolve(dict, fb, getAttribute(el, DATA_I18N_HTML)).s,
                        w |-> TRUE, html |-> TRUE]
              /\ \A p \in BoundPairs(el) :
                    ( /\ resolve(dict, fb, p[2]).t = "string"
                      /\ \A q \in BoundPairs(el) : q[1] = p[1] => q = p )
                    => /\ hasAttribute(el, p[1])
                       /\ el.attrs[p[1]] = Written(resolve(dict, fb, p[2]).s)

\* every target the script has written holds a value resolved from (dict, fb)
OnlyFromPair(doc, dict, fb) ==
    /\ doc.title.w =>
          /\ resolve(dict, fb, META_TITLE).t = "string"
          /\ doc.title.s = resolve(dict, fb, META_TITLE).s
    /\ doc.meta.content.w =>
          /\ resolve(dict, fb, META_DESCRIPTION).t = "string"
          /\ doc.meta.content.s = resolve(dict, fb, META_DESCRIPTION).s
    /\ \A i \in DOMAIN doc.elems :
          LET el == doc.elems[i]
          IN  /\ (HasText(el) /\ ~HasHtml(el) /\ el.content.w) =>
                    /\ resolve(dict, fb, getAttribute(el, DATA_I18N)).t = "string"
                    /\ el.content.s = resolve(dict, fb, getAttribute(el, DATA_I18N)).s
              /\ (HasHtml(el) /\ ~HasText(el) /\ el.content.w) =>
                    /\ resolve(dict, fb, getAttribute(el, DATA_I18N_HTML)).t = "string"
                    /\ el.content.s =
                          resolve(dict, fb, getAttribute(el, DATA_I18N_HTML)).s
              /\ \A p \in BoundPairs(el) :
                    ( /\ hasAttribute(el, p[1])
                      /\ el.attrs[p[1]].w
                      /\ \A q \in BoundPairs(el) : q[1] = p[1] => q = p )
                    => /\ resolve(dict, fb, p[2]).t = "string"
                       /\ el.attrs[p[1]].s = resolve(dict, fb, p[2]).s

(***************************************************************************)
(* C1.  Latest user intent wins: once every setLang call has finished,     *)
(* and the call invoked last applied a dictionary pair, the translations   *)
(* in the DOM are those of that call's pair.                               *)
(* Stated as the claim has it; the code has no sequence guard and the      *)
(* call that completes last wins instead.                                  *)
(***************************************************************************)
C1_LatestIntentWins ==
    (calls # <<>> /\ AllDone /\ calls[Len(calls)].applied # <<>>)
    => ShowsPair(document,
                 calls[Len(calls)].applied[1][1],
                 calls[Len(calls)].applied[1][2],
                 applied.n)

(***************************************************************************)
(* C2.  No cancellation: a call whose fetches have settled with some       *)
(* dictionary loaded calls applyTranslations at that moment, on the DOM as *)
(* it then is, whatever calls were invoked after it; no call is ever       *)
(* dropped.  DOM mutations therefore happen in completion order.           *)
(***************************************************************************)
C2_NoCancellation ==
    [][ /\ Len(calls') >= Len(calls)
        /\ \A i \in DOMAIN calls :
              /\ calls[i].pc = "done" => calls'[i] = calls[i]
              /\ (calls[i].pc # "done" /\ calls'[i].pc = "done"
                     /\ calls'[i].loaded # {})
                 => /\ Len(calls'[i].applied) = 1
                    /\ applied'.by = i
                    /\ applied'.sw = calls'[i].applied[1]
                    /\ document' = applyTranslations(document,
                                                     calls'[i].applied[1][1],
                                                     calls'[i].applied[1][2]) ]_vars

\* the dictionary applied last is the earlier call's, the preference and the
\* document language are the later call's
C2_EarlierAppliedLast ==
    \E i, j \in DOMAIN calls :
        /\ i < j
        /\ Done(i) /\ Done(j)
        /\ calls[i].lang # calls[j].lang
        /\ calls[j].applied # <<>>
        /\ applied.by = i
        /\ applied.dict = server[calls[i].lang]
        /\ document.lang = calls[j].lang
        /\ getItem(localStorage) = JStr(calls[j].lang)

(***************************************************************************)
(* C3, as claimed.  Whenever a pair has been applied, every translation    *)
(* target the script has written holds a value resolved from the pair      *)
(* applied last, never one left over from an earlier pair.                 *)
(***************************************************************************)
C3_NoLeftover ==
    applied.dict # JNull => OnlyFromPair(document, applied.dict, applied.fallback)

(***************************************************************************)
(* C3, amended.  Whenever a pair has been applied, every translation       *)
(* target that was on the page at that apply and whose key resolves in the *)
(* pair applied last holds the value resolved from it.  (A target whose    *)
(* key does not resolve in that pair keeps what it held.)                  *)
(***************************************************************************)
C3_ResolvedFromCurrentPair ==
    applied.dict # JNull
    => ShowsPair(document, applied.dict, applied.fallback, applied.n)

\* a second pair has been applied over a first and changed a written target
C3_SecondPairApplied ==
    /\ applied.by = 2
    /\ calls[1].applied # <<>>
    /\ calls[1].applied[1] # calls[2].applied[1]
    /\ document.title = Written(resolve(applied.dict, applied.fallback, META_TITLE).s)
    /\ \E i \in 1..applied.n :
          /\ HasText(document.elems[i])
          /\ resolve(applied.dict, applied.fallback,
                     getAttribute(document.elems[i], DATA_I18N)).t = "string"
          /\ resolve(calls[1].applied[1][1], calls[1].applied[1][2],
                     getAttribute(document.elems[i], DATA_I18N))
               # resolve(applied.dict, applied.fallback,
                         getAttribute(document.elems[i], DATA_I18N))

(***************************************************************************)
(* C4.  A finished switch to a supported non-default language in which     *)
(* every candidate fetch of the requested file failed and a candidate      *)
(* fetch of the default file succeeded has called applyTranslations        *)
(* exactly once, with the default dictionary as primary and an empty       *)
(* fallback.                                                               *)
(***************************************************************************)
C4_DefaultAsPrimaryOnce ==
    \A i \in DOMAIN calls :
        ( /\ Done(i)
          /\ calls[i].lang \in SUPPORTED \ {DEFAULT_LANG}
          /\ "primary" \in calls[i].exhausted
          /\ "default" \in calls[i].loaded )
        => calls[i].applied = << <<server[DEFAULT_LANG], EmptyObj>> >>

C4_DefaultApplied ==
    \E i \in DOMAIN calls :
        /\ Done(i)
        /\ calls[i].lang = IT
        /\ "primary" \in calls[i].exhausted
        /\ "default" \in calls[i].loaded
        /\ applied.by = i
        /\ document.title = Written(<<"H">>)

(***************************************************************************)
(* C5.  Once window.i18n.refresh exists, the pair it re-applies            *)
(* (__lastDict, __lastFallback) is the pair applied by the most recent     *)
(* switch that applied a dictionary, the default-as-primary case included. *)
(* Stated as the claim has it; the default-as-primary path does not record *)
(* its pair.                                                               *)
(***************************************************************************)
C5_RefreshReappliesLastSwitch ==
    windowI18n => <<OrEmpty(lastDict), OrEmpty(lastFallback)>> = applied.sw

(***************************************************************************)
(* C6.  setLang called with a code outside {hu, it} does what setLang('hu') *)
(* does: at the invocation the document language is 'hu', exactly the      *)
(* controls marked 'hu' are pressed, the stored preference (when storage   *)
(* works) is 'hu' and the first fetch is of hu.json at the first base; the *)
(* call only ever fetches hu.json URLs and applies the hu dictionary; and  *)
(* storage never holds a code outside the supported set.                   *)
(***************************************************************************)
C6_UnsupportedIsDefault ==
    /\ [](/\ \A i \in DOMAIN calls :
                calls[i].requested \notin SUPPORTED =>
                   /\ calls[i].lang = DEFAULT_LANG
                   /\ \/ calls[i].url = <<>>
                      \/ \E k \in DOMAIN bases : calls[i].url = Url(bases[k], HU)
                   /\ \A k \in DOMAIN calls[i].applied :
                         calls[i].applied[k] = <<server[HU], EmptyObj>>
          /\ \A key \in DOMAIN localStorage.items :
                localStorage.items[key] \in SUPPORTED)
    /\ [][ (Len(calls') = Len(calls) + 1
              /\ calls'[Len(calls')].requested \notin SUPPORTED)
           => /\ document'.lang = HU
              /\ \A i \in DOMAIN document'.elems :
                    hasAttribute(document'.elems[i], DATA_SET_LANG) =>
                       /\ hasAttribute(document'.elems[i], ARIA_PRESSED)
                       /\ (getAttribute(document'.elems[i], ARIA_PRESSED) = STR_TRUE)
                             <=> (getAttribute(document'.elems[i], DATA_SET_LANG) = HU)
                       /\ getAttribute(document'.elems[i], ARIA_PRESSED)
                             \in {STR_TRUE, STR_FALSE}
              /\ ~localStorage.throws => getItem(localStorage') = JStr(HU)
              /\ localStorage.throws => localStorage' = localStorage
              /\ calls'[Len(calls')].pc = "primary"
              /\ calls'[Len(calls')].url = Url(bases[1], HU) ]_vars

\* a call with an unsupported code has finished and applied the hu dictionary
C6_UnsupportedFinished ==
    \E i \in DOMAIN calls :
        /\ calls[i].requested = EN
        /\ Done(i)
        /\ calls[i].applied = << <<server[HU], EmptyObj>> >>
        /\ applied.by = i
        /\ document.lang = HU

(***************************************************************************)
(* C7.  Whatever the fetches do and whether or not storage throws, a       *)
(* setLang call never rejects: it is suspended at the fetch of a candidate *)
(* URL, or it has returned normally with one of four outcomes, decided     *)
(* by which fetches succeeded: primary applied with the default as         *)
(* fallback, primary applied with an empty fallback, the default applied   *)
(* as primary, or nothing applied.                                         *)
(***************************************************************************)
C7_ResolvesNeverRejects ==
    \A i \in DOMAIN calls :
        LET c == calls[i]
        IN  /\ c.pc \in {"primary", "fallback", "default", "done"}
            /\ c.pc # "done" =>
                  /\ c.b \in DOMAIN bases
                  /\ c.url = Url(bases[c.b],
                                 IF c.pc = "primary" THEN c.lang ELSE DEFAULT_LANG)
            /\ c.pc = "done" =>
                  /\ c.loaded \in {{"primary", "fallback"}, {"primary"}, {"default"}, {}}
                  /\ c.loaded = {"primary", "fallback"} =>
                        c.applied = << <<server[c.lang], server[DEFAULT_LANG]>> >>
                  /\ c.loaded = {"primary"} =>
                        c.applied = << <<server[c.lang], EmptyObj>> >>
                  /\ c.loaded = {"default"} =>
                        c.applied = << <<server[DEFAULT_LANG], EmptyObj>> >>
                  /\ c.loaded = {} => c.applied = <<>>

\* storage throws, and the four outcomes have each been seen or could be:
\* here a call returned with nothing applied and another with a pair applied
C7_ReturnedUnderFailures ==
    /\ localStorage.throws
    /\ \E i, j \in DOMAIN calls :
          /\ Done(i) /\ calls[i].loaded = {}
          /\ calls[i].exhausted = {"primary", "default"}
          /\ Done(j) /\ calls[j].loaded = {"primary"}
          /\ calls[j].exhausted = {"fallback"}

(***************************************************************************)
(* C8.  A step of a setLang call for which no fetch has succeeded - its    *)
(* invocation, each of its failed fetches, and its return when every       *)
(* candidate of the requested and of the default language has failed -     *)
(* calls applyTranslations not at all and leaves every translation target  *)
(* and the recorded last-loaded dictionaries as they were.                 *)
(***************************************************************************)
C8_TotalFailureChangesNothing ==
    [][ \A i \in DOMAIN calls' :
           ( /\ i \in DOMAIN calls => calls'[i] # calls[i]
             /\ calls'[i].loaded = {} )
           => /\ Targets(document') = Targets(document)
              /\ lastDict' = lastDict
              /\ lastFallback' = lastFallback
              /\ applied' = applied
              /\ calls'[i].applied = <<>> ]_vars

\* a switch failed entirely after another had translated the page, and the
\* page still holds that translation
C8_FailedAfterSuccess ==
    \E i \in DOMAIN calls :
        /\ Done(i)
        /\ calls[i].loaded = {}
        /\ "primary" \in calls[i].exhausted
        /\ calls[i].lang # DEFAULT_LANG => "default" \in calls[i].exhausted
        /\ calls[i].applied = <<>>
        /\ applied.by \notin {0, i}
        /\ lastDict = applied.dict
        /\ document.title = Written(resolve(applied.dict, applied.fallback, META_TITLE).s)

(***************************************************************************)
(* The precedence the claims state, written from the dictionaries alone.   *)
(***************************************************************************)
InPrimary(key)  == Usable(getByPath(applied.dict, key))
InFallback(key) == Usable(getByPath(applied.fallback, key))

\* what a target bound to key must hold after the apply, when it resolves
Precedence(slot, key) ==
    /\ InPrimary(key)
          => slot.s = getByPath(applied.dict, key).s /\ slot.w
    /\ (~InPrimary(key) /\ InFallback(key))
          => slot.s = getByPath(applied.fallback, key).s /\ slot.w

(***************************************************************************)
(* C9.  After an apply, for every bound target on the page at that apply:  *)
(* if the primary's value at its key is a string that is non-empty after   *)
(* trimming the target holds that value; otherwise, if the fallback's      *)
(* value at the key is such a string, the target holds the fallback's      *)
(* value.                                                                  *)
(***************************************************************************)
C9_PrimaryThenFallback ==
    applied.dict # JNull =>
       /\ Precedence(document.title, META_TITLE)
       /\ document.meta.present => Precedence(document.meta.content, META_DESCRIPTION)
       /\ \A i \in 1..applied.n :
             LET el == document.elems[i]
             IN  /\ (HasText(el) /\ ~HasHtml(el))
                       => Precedence(el.content, getAttribute(el, DATA_I18N))
                 /\ (HasHtml(el) /\ ~HasText(el))
                       => Precedence(el.content, getAttribute(el, DATA_I18N_HTML))
                 /\ \A p \in BoundPairs(el) :
                       (\A q \in BoundPairs(el) : q[1] = p[1] => q = p)
                       => /\ (InPrimary(p[2]) \/ InFallback(p[2]))
                                => hasAttribute(el, p[1])
                          /\ hasAttribute(el, p[1])
                                => Precedence(el.attrs[p[1]], p[2])

\* one target took the primary's value over a usable fallback value, another
\* took the fallback's value because the primary's was absent or blank
C9_BothBranchesTaken ==
    /\ applied.dict # JNull
    /\ \E i, j \in 1..applied.n :
          /\ HasHtml(document.elems[i])
          /\ InPrimary(getAttribute(document.elems[i], DATA_I18N_HTML))
          /\ InFallback(getAttribute(document.elems[i], DATA_I18N_HTML))
          /\ document.elems[i].content.s =
                getByPath(applied.dict, getAttribute(document.elems[i], DATA_I18N_HTML)).s
          /\ document.elems[i].content.s #
                getByPath(applied.fallback,
                          getAttribute(document.elems[i], DATA_I18N_HTML)).s
          /\ HasText(document.elems[j])
          /\ ~InPrimary(getAttribute(document.elems[j], DATA_I18N))
          /\ InFallback(getAttribute(document.elems[j], DATA_I18N))
          /\ document.elems[j].content.s =
                getByPath(applied.fallback, getAttribute(document.elems[j], DATA_I18N)).s

(***************************************************************************)
(* C10.  An applyTranslations call leaves every target whose key resolves  *)
(* in neither dictionary as it was: title, description content, text and   *)
(* HTML content, and named attributes (an attribute that was absent stays  *)
(* absent).                                                                *)
(***************************************************************************)
Neither(key) ==
    /\ ~Usable(getByPath(applied'.dict, key))
    /\ ~Usable(getByPath(applied'.fallback, key))

C10_UnresolvedUntouched ==
    [][ applied' # applied =>
          /\ Neither(META_TITLE) => document'.title = document.title
          /\ Neither(META_DESCRIPTION) => document'.meta = document.meta
          /\ \A i \in DOMAIN document.elems :
                LET el == document.elems[i]
                IN  /\ ( /\ HasText(el) \/ HasHtml(el)
                         /\ HasText(el) => Neither(getAttribute(el, DATA_I18N))
                         /\ HasHtml(el) => Neither(getAttribute(el, DATA_I18N_HTML)) )
                       => document'.elems[i].content = el.content
                    /\ \A p \in BoundPairs(el) :
                          (\A q \in BoundPairs(el) : q[1] = p[1] => Neither(q[2]))
                          => IF hasAttribute(el, p[1])
                             THEN /\ hasAttribute(document'.elems[i], p[1])
                                  /\ document'.elems[i].attrs[p[1]] = el.attrs[p[1]]
                             ELSE ~hasAttribute(document'.elems[i], p[1]) ]_vars

\* an apply has written some target and left an unresolved one as the page had it
C10_UnresolvedKeptOriginal ==
    /\ applied.dict # JNull
    /\ document.title.w
    /\ \E i \in 1..applied.n :
          /\ HasText(document.elems[i])
          /\ getAttribute(document.elems[i], DATA_I18N) # <<>>
          /\ ~InPrimary(getAttribute(document.elems[i], DATA_I18N))
          /\ ~InFallback(getAttribute(document.elems[i], DATA_I18N))
          /\ document.elems[i].content = [s |-> <<"o">>, w |-> FALSE, html |-> TRUE]
    /\ \E i \in 1..applied.n :
          /\ BoundPairs(document.elems[i]) # {}
          /\ ~hasAttribute(document.elems[i], LANG)

(***************************************************************************)
(* C11.  The language init() switches to is the stored preference when     *)
(* storage can be read and the stored value is 'hu' or 'it'; otherwise the *)
(* document's language attribute when that is 'hu' or 'it'; otherwise      *)
(* 'hu'.  A store whose read throws counts as holding nothing.  Choosing   *)
(* the language writes nothing: the store and the page after init() are    *)
(* what the switch alone makes of them.                                    *)
(***************************************************************************)
StoredReadable ==
    /\ ~localStorage.throws
    /\ STORAGE_KEY \in DOMAIN localStorage.items
    /\ localStorage.items[STORAGE_KEY] \in {HU, IT}

C11_InitialLangPrecedence ==
    [][ (~ready /\ ready') =>
          /\ Len(calls') = 1
          /\ StoredReadable => calls'[1].requested = localStorage.items[STORAGE_KEY]
          /\ (~StoredReadable /\ document.lang \in {HU, IT})
                => calls'[1].requested = document.lang
          /\ (~StoredReadable /\ document.lang \notin {HU, IT})
                => calls'[1].requested = HU
          /\ localStorage.throws => localStorage' = localStorage
          /\ ~localStorage.throws
                => localStorage'.items = (STORAGE_KEY :> calls'[1].requested)
          /\ document' = updateLangUi(document, calls'[1].requested) ]_vars

\* the store throws on every access and holds 'it', and init() switched to
\* 'hu'; the switch then loaded
C11_ThrowingStoreIgnored ==
    /\ ready
    /\ localStorage.throws
    /\ STORAGE_KEY \in DOMAIN localStorage.items
    /\ localStorage.items[STORAGE_KEY] = IT
    /\ calls[1].requested = HU
    /\ Done(1)
    /\ applied.by = 1

(***************************************************************************)
(* C12.  When the fetch of the requested language's file succeeds: for     *)
(* 'hu' the call applies at once with an empty fallback and never fetches  *)
(* a fallback; for another language it starts fetching hu.json from the    *)
(* first base, goes to the next base on each failure, applies (primary,    *)
(* hu.json) when one succeeds, and applies (primary, {}) when the last     *)
(* base has failed.                                                        *)
(***************************************************************************)
C12_FallbackFetch ==
    [][ \A i \in DOMAIN calls :
          /\ (calls[i].pc = "primary" /\ "primary" \in calls'[i].loaded) =>
                IF calls[i].lang = DEFAULT_LANG
                THEN /\ calls'[i].pc = "done"
                     /\ calls'[i].applied = << <<server[calls[i].lang], EmptyObj>> >>
                     /\ lastFallback' = EmptyObj
                     /\ document' = applyTranslations(document,
                                         server[calls[i].lang], EmptyObj)
                ELSE /\ calls'[i].pc = "fallback"
                     /\ calls'[i].b = 1
                     /\ calls'[i].url = Url(bases[1], DEFAULT_LANG)
                     /\ calls'[i].applied = <<>>
                     /\ document' = document
          /\ (calls[i].pc = "fallback" /\ calls'[i] # calls[i]) =>
                /\ calls[i].lang # DEFAULT_LANG
                /\ IF "fallback" \in calls'[i].loaded
                   THEN /\ calls'[i].pc = "done"
                        /\ calls'[i].applied =
                              << <<server[calls[i].lang], server[DEFAULT_LANG]>> >>
                        /\ lastFallback' = server[DEFAULT_LANG]
                   ELSE IF calls[i].b < Len(bases)
                        THEN /\ calls'[i].pc = "fallback"
                             /\ calls'[i].b = calls[i].b + 1
                             /\ calls'[i].url = Url(bases[calls[i].b + 1], DEFAULT_LANG)
                             /\ document' = document
                        ELSE /\ calls'[i].pc = "done"
                             /\ calls'[i].applied =
                                   << <<server[calls[i].lang], EmptyObj>> >>
                             /\ lastDict' = server[calls[i].lang]
                             /\ lastFallback' = EmptyObj
                             /\ document' = applyTranslations(document,
                                                 server[calls[i].lang], EmptyObj) ]_vars

\* a switch to 'hu' applied without a fallback fetch, and a switch to 'it'
\* applied its primary alone after every fallback fetch failed: the blank
\* "a" of it.json left the text bound to "a" as it was
C12_PrimaryAloneApplied ==
    \E i, j \in DOMAIN calls :
        /\ Done(i) /\ calls[i].lang = HU
        /\ calls[i].loaded = {"primary"} /\ calls[i].exhausted = {}
        /\ calls[i].applied = << <<server[HU], EmptyObj>> >>
        /\ Done(j) /\ calls[j].lang = IT
        /\ calls[j].loaded = {"primary"} /\ calls[j].exhausted = {"fallback"}
        /\ calls[j].applied = << <<server[IT], EmptyObj>> >>
        /\ applied.by = j
        /\ lastFallback = EmptyObj
        /\ document.title = Written(<<"I">>)

(***************************************************************************)
(* The pairs of an attribute-binding marker as the claims describe them:   *)
(* a ';'-separated segment is well formed when it holds one colon with a   *)
(* non-blank attribute name before it and a non-blank key after it.        *)
(***************************************************************************)
Colons(seg) == {k \in 1..Len(seg) : seg[k] = ":"}
ColonAt(seg) == CHOOSE k \in Colons(seg) : TRUE
AttrOf(seg) == Trim(SubSeq(seg, 1, ColonAt(seg) - 1))
KeyOf(seg)  == Trim(SubSeq(seg, ColonAt(seg) + 1, Len(seg)))
WellFormed(seg) ==
    /\ Cardinality(Colons(seg)) = 1
    /\ AttrOf(seg) # <<>>
    /\ KeyOf(seg) # <<>>

\* the segments of el's marker that are well formed and whose key resolves
\* in the pair applied last
Effective(el) ==
    LET segs == Split(getAttribute(el, DATA_I18N_ATTR), ";")
    IN  {k \in DOMAIN segs :
            /\ WellFormed(segs[k])
            /\ resolve(applied.dict, applied.fallback, KeyOf(segs[k])).t = "string"}

(***************************************************************************)
(* C13.  After an apply, on every element carrying an attribute-binding    *)
(* marker: each well-formed pair whose key resolves has set its attribute  *)
(* to the resolved value (the last such pair, where several name the same  *)
(* attribute), wherever malformed pairs stand in the list; and the         *)
(* malformed pairs have done nothing: no other attribute was written or    *)
(* added.                                                                  *)
(***************************************************************************)
C13_AttrPairs ==
    applied.dict # JNull =>
       \A i \in 1..applied.n :
          LET el == document.elems[i]
          IN  hasAttribute(el, DATA_I18N_ATTR) =>
                LET segs == Split(getAttribute(el, DATA_I18N_ATTR), ";")
                IN  /\ \A k \in Effective(el) :
                          (\A j \in Effective(el) :
                              AttrOf(segs[j]) = AttrOf(segs[k]) => j <= k)
                          => /\ hasAttribute(el, AttrOf(segs[k]))
                             /\ el.attrs[AttrOf(segs[k])] =
                                   Written(resolve(applied.dict, applied.fallback,
                                                   KeyOf(segs[k])).s)
                    /\ \A a \in DOMAIN el.attrs :
                          (\A k \in Effective(el) : AttrOf(segs[k]) # a)
                          => /\ ~el.attrs[a].w
                             /\ a = DATA_I18N_ATTR

\* the two well-formed pairs standing after four malformed segments were
\* applied, and the malformed ones added nothing
C13_PairsAfterMalformedApplied ==
    /\ applied.dict # JNull
    /\ \E i \in 1..applied.n :
          /\ hasAttribute(document.elems[i], DATA_I18N_ATTR)
          /\ getAttribute(document.elems[i], DATA_I18N_ATTR) = ParseAttrSpec
          /\ DOMAIN document.elems[i].attrs = {DATA_I18N_ATTR, ALT, TITLE}
          /\ document.elems[i].attrs[ALT] = Written(<<"p">>)
          /\ document.elems[i].attrs[TITLE].w

(***************************************************************************)
(* A walk of a dotted key that descends through mappings only, as the      *)
(* claim describes it: it breaks where the current value is not a mapping  *)
(* or does not hold the segment as a key of its own.                       *)
(***************************************************************************)
RECURSIVE Breaks(_, _)
Breaks(v, parts) ==
    IF parts = <<>> THEN FALSE
    ELSE IF v.t # "object" \/ Head(parts) \notin DOMAIN v.m THEN TRUE
         ELSE Breaks(v.m[Head(parts)], Tail(parts))

\* the keys the page's text and HTML bindings name
PageKeys ==
    {getAttribute(document.elems[i], DATA_I18N) :
        i \in {j \in DOMAIN document.elems : HasText(document.elems[j])}}
    \cup
    {getAttribute(document.elems[i], DATA_I18N_HTML) :
        i \in {j \in DOMAIN document.elems : HasHtml(document.elems[j])}}

(***************************************************************************)
(* C14.  For every dictionary applied and every key bound on the page: if  *)
(* the key's path reaches a value that is not a mapping before its last    *)
(* segment, or a segment that is not an own key of the current mapping,    *)
(* getByPath yields undefined, the key is unresolved in that dictionary,   *)
(* and a text binding whose key breaks so in both dictionaries is left     *)
(* unwritten.                                                              *)
(* Stated as the claim has it; hasOwnProperty boxes a string leaf, whose   *)
(* character indices and "length" are own properties, so "a.0" yields the  *)
(* first character of the string at "a".                                   *)
(***************************************************************************)
C14_DescendsOnlyThroughMappings ==
    applied.dict # JNull =>
       /\ \A d \in {applied.dict, applied.fallback} :
             \A key \in PageKeys \ {<<>>} :
                Breaks(d, Split(key, "."))
                => /\ getByPath(d, key) = JUndefined
                   /\ ~Usable(getByPath(d, key))
       /\ \A i \in 1..applied.n :
             LET el == document.elems[i]
             IN  ( /\ HasText(el) /\ ~HasHtml(el)
                   /\ getAttribute(el, DATA_I18N) # <<>>
                   /\ Breaks(applied.dict, Split(getAttribute(el, DATA_I18N), "."))
                   /\ Breaks(applied.fallback, Split(getAttribute(el, DATA_I18N), ".")) )
                 => ~el.content.w

(***************************************************************************)
(* The UI state of a language: the document language attribute is the      *)
(* code, every switch control carries aria-pressed, 'true' on exactly      *)
(* those whose marker is the code, and a working store holds the code.     *)
(***************************************************************************)
UiShows(doc, store, lang) ==
    /\ doc.lang = lang
    /\ \A i \in DOMAIN doc.elems :
          hasAttribute(doc.elems[i], DATA_SET_LANG) =>
             /\ hasAttribute(doc.elems[i], ARIA_PRESSED)
             /\ getAttribute(doc.elems[i], ARIA_PRESSED) =
                   IF getAttribute(doc.elems[i], DATA_SET_LANG) = lang
                   THEN STR_TRUE ELSE STR_FALSE
    /\ ~store.throws =>
          /\ STORAGE_KEY \in DOMAIN store.items
          /\ store.items[STORAGE_KEY] = lang

(***************************************************************************)
(* C15.  The step that invokes setLang normalizes the code, stores it,     *)
(* sets the document language and aria-pressed, and issues the first       *)
(* fetch, and it applies nothing: loading and applying come in later       *)
(* steps.  Hence, between handlers, the UI state is that of the (normal-   *)
(* ized) code of the switch invoked last, whether its fetches are pending, *)
(* succeeded or failed.                                                    *)
(***************************************************************************)
C15_UiFollowsInvocation ==
    /\ [](calls # <<>> => UiShows(document, localStorage, calls[Len(calls)].lang))
    /\ [][ Len(calls') = Len(calls) + 1 =>
             LET new == calls'[Len(calls')]
             IN  /\ new.lang = IF new.requested \in {HU, IT} THEN new.requested ELSE HU
                 /\ UiShows(document', localStorage', new.lang)
                 /\ new.pc = "primary"
                 /\ new.url = Url(bases[1], new.lang)
                 /\ new.loaded = {} /\ new.applied = <<>>
                 /\ Targets(document') = Targets(document)
                 /\ applied' = applied
                 /\ \A i \in DOMAIN calls : calls'[i] = calls[i] ]_vars

\* the switch invoked last failed to load anything: the page still shows the
\* earlier switch's dictionary while the UI state is the later switch's
C15_UiOfFailedSwitch ==
    /\ Len(calls) = 2
    /\ AllDone
    /\ calls[2].lang = IT /\ calls[1].lang = HU
    /\ calls[2].loaded = {}
    /\ applied.by = 1
    /\ document.title = Written(<<"H">>)
    /\ UiShows(document, localStorage, IT)
    /\ ~localStorage.throws

(***************************************************************************)
(* The candidate URLs of a language, in the order the claim gives.         *)
(***************************************************************************)
Candidates(lang) ==
    << <<".", "/", "i", "1", "8", "n", "/">> \o lang \o <<".", "j", "s", "o", "n">>,
       <<".", "/">> \o lang \o <<".", "j", "s", "o", "n">>,
       <<"/", "i", "1", "8", "n", "/">> \o lang \o <<".", "j", "s", "o", "n">> >>

First(seq, k) == SubSeq(seq, 1, k)

(***************************************************************************)
(* C16.  The URLs a switch has requested are the first k candidates of the *)
(* requested language, in the order './i18n/', './', '/i18n/', followed -  *)
(* once that loop is over - by the first m candidates of 'hu': no URL      *)
(* twice, at most 3 + 3.  A loop in which a fetch succeeds is left in that *)
(* step and requests nothing more; a failed fetch is followed by the next  *)
(* candidate.  And when every fetch settles, every switch returns.         *)
(***************************************************************************)
C16_CandidateOrder ==
    /\ [](\A i \in DOMAIN calls :
            LET c == calls[i]
                f == c.fetched
            IN  /\ Len(f) <= 6
                /\ \A a, b \in DOMAIN f : a # b => f[a] # f[b]
                /\ c.pc = "primary" =>
                      /\ Len(f) \in 1..3
                      /\ f = First(Candidates(c.lang), Len(f))
                      /\ c.url = f[Len(f)]
                /\ c.pc \in {"fallback", "default"} =>
                      /\ c.lang # HU
                      /\ \E k, m \in 1..3 :
                            /\ f = First(Candidates(c.lang), k)
                                      \o First(Candidates(HU), m)
                            /\ c.pc = "default" => k = 3
                      /\ c.url = f[Len(f)])
    /\ [][ \A i \in DOMAIN calls :
             /\ calls'[i].loaded # calls[i].loaded =>
                   /\ calls'[i].pc # calls[i].pc
                   /\ \/ calls'[i].pc = "done"
                      \/ /\ calls[i].pc = "primary"
                         /\ calls'[i].pc = "fallback"
                         /\ calls'[i].fetched =
                               Append(calls[i].fetched, Candidates(HU)[1])
             /\ ( /\ calls'[i] # calls[i]
                  /\ calls'[i].loaded = calls[i].loaded
                  /\ calls'[i].pc = calls[i].pc )
                => /\ Len(calls'[i].fetched) = Len(calls[i].fetched) + 1
                   /\ First(calls'[i].fetched, Len(calls[i].fetched))
                         = calls[i].fetched ]_vars
    /\ \A i \in 1..MaxCalls :
          (i \in DOMAIN calls) ~> (i \in DOMAIN calls /\ calls[i].pc = "done")

\* a switch has requested all three candidates of 'it' and is at the third
\* of 'hu': six requests, all different
C16_SixFetches ==
    \E i \in DOMAIN calls :
        /\ calls[i].pc = "default"
        /\ calls[i].b = 3
        /\ calls[i].fetched = Candidates(IT) \o Candidates(HU)
        /\ Cardinality({calls[i].fetched[k] : k \in 1..6}) = 6

(***************************************************************************)
(* C17.  An apply writes the title, then the description, then the text    *)
(* bindings, then the HTML bindings, then the attribute bindings.  So an   *)
(* element carrying both a text and an HTML marker holds, after an apply,  *)
(* the HTML binding's value as markup when both keys resolve (and the text *)
(* binding's value as text when only that key resolves).                   *)
(***************************************************************************)
C17_WriteOrder ==
    /\ [][ applied' # applied =>
             document' =
                AttrPass(
                  HtmlPass(
                    TextPass(
                      SetDescription(
                        SetTitle(document, applied'.dict, applied'.fallback),
                        applied'.dict, applied'.fallback),
                      applied'.dict, applied'.fallback),
                    applied'.dict, applied'.fallback),
                  applied'.dict, applied'.fallback) ]_vars
    /\ [](applied.dict # JNull =>
            \A i \in 1..applied.n :
               LET el == document.elems[i]
                   tv == resolve(applied.dict, applied.fallback,
                                 IF HasText(el) THEN getAttribute(el, DATA_I18N)
                                 ELSE <<>>)
                   hv == resolve(applied.dict, applied.fallback,
                                 IF HasHtml(el) THEN getAttribute(el, DATA_I18N_HTML)
                                 ELSE <<>>)
               IN  (HasText(el) /\ HasHtml(el)) =>
                      /\ hv.t = "string" =>
                            el.content = [s |-> hv.s, w |-> TRUE, html |-> TRUE]
                      /\ (hv.t # "string" /\ tv.t = "string") =>
                            el.content = [s |-> tv.s, w |-> TRUE, html |-> FALSE])

\* an element with both markers whose keys resolve to different values holds
\* the HTML binding's value
C17_HtmlOverText ==
    /\ applied.dict # JNull
    /\ \E i \in 1..applied.n :
          LET el == document.elems[i]
          IN  /\ HasText(el) /\ HasHtml(el)
              /\ Usable(resolve(applied.dict, applied.fallback,
                                 getAttribute(el, DATA_I18N)))
              /\ Usable(resolve(applied.dict, applied.fallback,
                                 getAttribute(el, DATA_I18N_HTML)))
              /\ resolve(applied.dict, applied.fallback, getAttribute(el, DATA_I18N))
                    # resolve(applied.dict, applied.fallback,
                              getAttribute(el, DATA_I18N_HTML))
              /\ el.content.html
              /\ el.content.s = resolve(applied.dict, applied.fallback,
                                        getAttribute(el, DATA_I18N_HTML)).s

(***************************************************************************)
(* C18, as claimed.  Whenever no switch is in flight and the switch        *)
(* invoked last applied a dictionary, the dictionary it applied as primary *)
(* is that of the language the UI state shows (document language, pressed  *)
(* control, stored preference).                                            *)
(***************************************************************************)
C18_PrimaryIsUiLanguage ==
    (calls # <<>> /\ AllDone /\ calls[Len(calls)].applied # <<>>)
    => \E l \in DOMAIN server :
          /\ calls[Len(calls)].applied[1][1] = server[l]
          /\ UiShows(document, localStorage, l)

(***************************************************************************)
(* C18, amended.  Whenever no switch is in flight and the switch invoked   *)
(* last applied a dictionary, the UI state shows that switch's language,   *)
(* and the dictionary it applied as primary is that language's when its    *)
(* own file loaded; when every candidate of its own file failed, it is the *)
(* default language's dictionary, under a UI state that still shows the    *)
(* requested language.                                                     *)
(***************************************************************************)
C18_PrimaryIsUiLanguageIfLoaded ==
    (calls # <<>> /\ AllDone /\ calls[Len(calls)].applied # <<>>)
    => LET c == calls[Len(calls)]
       IN  /\ UiShows(document, localStorage, c.lang)
           /\ "primary" \in c.loaded => c.applied[1][1] = server[document.lang]
           /\ "primary" \notin c.loaded =>
                 /\ c.applied[1][1] = server[DEFAULT_LANG]
                 /\ document.lang # DEFAULT_LANG
                 /\ "primary" \in c.exhausted

\* two finished switches: the earlier loaded its own file, the later one
\* applied the default dictionary under the UI state of 'it'
C18_DefaultUnderOtherUi ==
    /\ Len(calls) = 2
    /\ AllDone
    /\ "primary" \in calls[1].loaded
    /\ calls[2].applied = << <<server[HU], EmptyObj>> >>
    /\ UiShows(document, localStorage, IT)
    /\ applied.by = 2

(***************************************************************************)
(* C19.  A step that applies the pair applied just before it, to a page    *)
(* that holds the same elements as then, leaves the DOM exactly as it was: *)
(* applying a pair twice in a row equals applying it once.  (A step that   *)
(* changes neither the calls nor the number of elements is a refresh; a    *)
(* step in which a call's list of applied pairs grows is a switch's apply.)*)
(***************************************************************************)
C19_ApplyTwiceIsApplyOnce ==
    [][ ( /\ \/ /\ calls' = calls
                /\ Len(document'.elems) = Len(document.elems)
             \/ \E i \in DOMAIN calls :
                   Len(calls'[i].applied) > Len(calls[i].applied)
          /\ applied.dict # JNull
          /\ applied'.dict = applied.dict
          /\ applied'.fallback = applied.fallback
          /\ applied.n = Len(document.elems) )
        => document' = document ]_vars

\* refresh has re-applied the pair of the apply before it to the same
\* elements, among them text, HTML and attribute targets that were written
C19_RefreshedSamePair ==
    /\ applied.again
    /\ AllDone
    /\ applied.dict = OrEmpty(lastDict)
    /\ applied.n = Len(document.elems)
    /\ document.title.w
    /\ \E i, j, k \in 1..applied.n :
          /\ HasText(document.elems[i]) /\ document.elems[i].content.w
          /\ HasHtml(document.elems[j]) /\ document.elems[j].content.w
          /\ hasAttribute(document.elems[k], TITLE)
          /\ document.elems[k].attrs[TITLE].w

(***************************************************************************)
(* The switch control of an event, as the claim describes it: the nearest  *)
(* node of the path, the target itself included, that carries the          *)
(* language-switch marker.                                                 *)
(***************************************************************************)
Marked(path) ==
    {k \in DOMAIN path :
        path[k] # 0 /\ DATA_SET_LANG \in DOMAIN document.elems[path[k]].attrs}

Nearest(path) == CHOOSE k \in Marked(path) : \A j \in Marked(path) : k <= j

CodeOf(path) == document.elems[path[Nearest(path)]].attrs[DATA_SET_LANG].s

\* the nearest marked ancestor-or-self exists and its code is not empty
HasSwitch(path) == Marked(path) # {} /\ CodeOf(path) # <<>>

\* a key press that invokes a switch is Enter or Space on a focused element
\* that carries the marker itself
KeydownOnlyOnSwitch ==
    (event'.type = "keydown" /\ Len(calls') > Len(calls)) =>
       /\ event'.key \in {"Enter", " "}
       /\ 1 \in Marked(event'.path)
       /\ calls'[Len(calls')].requested = CodeOf(event'.path)

(***************************************************************************)
(* C20, as claimed.  A click invokes setLang exactly when the nearest      *)
(* marked ancestor-or-self of its target has a non-empty code, and with    *)
(* that code; any other click invokes nothing and leaves the default       *)
(* action alone.  A key press invokes setLang only for Enter or Space on a *)
(* focused element that itself carries the marker.                         *)
(***************************************************************************)
C20_ClickAndKeydown ==
    [][ event'.tick # event.tick =>
          /\ event'.type = "click" =>
                IF HasSwitch(event'.path)
                THEN /\ Len(calls') = Len(calls) + 1
                     /\ calls'[Len(calls')].requested = CodeOf(event'.path)
                ELSE /\ calls' = calls
                     /\ ~event'.defaultPrevented
          /\ KeydownOnlyOnSwitch ]_vars

(***************************************************************************)
(* C20, amended.  A click invokes setLang exactly when the nearest marked  *)
(* ancestor-or-self of its target has a non-empty code, and with that      *)
(* code; any other click invokes nothing.  The default action is prevented *)
(* exactly when the target has a marked ancestor-or-self, an empty code    *)
(* included.  Key presses as claimed.                                      *)
(***************************************************************************)
C20_ClickPreventsOnAnyMarker ==
    [][ event'.tick # event.tick =>
          /\ event'.type = "click" =>
                /\ IF HasSwitch(event'.path)
                   THEN /\ Len(calls') = Len(calls) + 1
                        /\ calls'[Len(calls')].requested = CodeOf(event'.path)
                   ELSE calls' = calls
                /\ event'.defaultPrevented <=> Marked(event'.path) # {}
          /\ KeydownOnlyOnSwitch ]_vars

\* a click inside the element with the empty marker, itself inside the 'hu'
\* control, was prevented and invoked nothing: init's call is the only one
C20_EmptyMarkerClicked ==
    /\ event.type = "click"
    /\ event.path = <<0, 3, 1>>
    /\ event.defaultPrevented
    /\ Len(calls) = 1

====
